---------------------------- MODULE Spec2Model ----------------------------
(***************************************************************************)
(* A model of generate.py of kitty-conf.nvim: the functions that turn      *)
(* kitty's reStructuredText documentation into plain text and metadata     *)
(* (strip_rst, extract_values, none_is_special_value, is_stub_doc,         *)
(* parse_options_spec, format_flags_doc) and the enrichment pass over the  *)
(* action map (enrich_stub_actions).                                       *)
(*                                                                         *)
(* A text is a sequence of characters, each a one-character string.  A     *)
(* TLA+ string literal cannot hold a backquote, so in every literal of     *)
(* this module the apostrophe ' stands for the backquote of the source:    *)
(* ":code:'none'" is the text  :code:<backquote>none<backquote>.  The      *)
(* texts of the model hold no apostrophe of their own.                     *)
(***************************************************************************)
EXTENDS Integers, Sequences, FiniteSets, TLC

VARIABLES
    pc,        \* where the modelled run stands
    opt_name,  \* extract_values / none_is_special_value: the queried option
    parts,     \* the pieces the input text is assembled from
    text,      \* the input text of the function under study
    ret,       \* the value the function returned
    \* parse_options_spec
    rest,                \* the lines of the spec the loop has yet to take
    entries,             \* the (flags, description) pairs so far
    current_flags,       \* the flag under accumulation, <<>> for None
    current_meta,        \* its metadata: key -> <<>> (no such key) or <<value>>
    current_desc_lines,  \* its description lines
    \* the generation of the action records
    kitty,               \* what the script imports from kitty: its sources
    action_map,          \* the action records, in insertion order
    actions,             \* the emitted records: action_map's, sorted by name
    idx,                 \* the position of the running loop
    command_for_name,    \* FALSE for None: kitty.rc.base was not imported
    \* the generation of the option records
    definition,          \* definition.iter_all_options(): the descriptors
    opt_pos,             \* the position of the loop over them
    options,             \* the option records so far
    multi_options        \* the multi-option records so far

textvars == <<opt_name, parts, text>>
parservars == <<rest, entries, current_flags, current_meta, current_desc_lines>>
enrichvars == <<kitty, action_map, actions, idx, command_for_name>>
optionvars == <<definition, opt_pos, options, multi_options>>
vars == <<pc, opt_name, parts, text, ret, parservars, enrichvars, optionvars>>

-----------------------------------------------------------------------------
(* Characters and character classes of Python's re module.                 *)

Chars(s) == [i \in 1..Len(s) |-> SubSeq(s, i, i)]

BT == "'"
NL == "\n"

Lower == {"a","b","c","d","e","f","g","h","i","j","k","l","m",
          "n","o","p","q","r","s","t","u","v","w","x","y","z"}
Upper == {"A","B","C","D","E","F","G","H","I","J","K","L","M",
          "N","O","P","Q","R","S","T","U","V","W","X","Y","Z"}
Digit == {"0","1","2","3","4","5","6","7","8","9"}
\* \w
Word == Lower \cup Upper \cup Digit \cup {"_"}
\* \s, and what str.strip() and str.split() take for whitespace
Space == {" ", "\t", "\n", "\r", "\f"}
\* [a-z@/] and [\w. @+=/:-] of the angle-bracket target
TargetHead == Lower \cup {"@", "/"}
TargetBody == Word \cup {".", " ", "@", "+", "=", "/", ":", "-"}

\* re.IGNORECASE on ASCII letters
LowerCase(c) ==
    IF c \in Upper
    THEN CHOOSE l \in Lower :
           \E k \in 1..26 : SubSeq("ABCDEFGHIJKLMNOPQRSTUVWXYZ", k, k) = c
                         /\ SubSeq("abcdefghijklmnopqrstuvwxyz", k, k) = l
    ELSE c

\* t[i], or a value no character equals beyond the ends of t
At(t, i) == IF i >= 1 /\ i <= Len(t) THEN t[i] ELSE "<end>"

\* the literal lit stands in t at position i
LitAt(t, i, lit) ==
    /\ i >= 1
    /\ i + Len(lit) - 1 <= Len(t)
    /\ \A k \in 1..Len(lit) : t[i + k - 1] = lit[k]

\* the literal lit stands in t at position i, letter case ignored
LitAtNoCase(t, i, lit) ==
    /\ i >= 1
    /\ i + Len(lit) - 1 <= Len(t)
    /\ \A k \in 1..Len(lit) : LowerCase(t[i + k - 1]) = LowerCase(lit[k])

\* the least j in lo..hi that is in S, hi + 1 if there is none (lo if
\* lo > hi): a scan from the left
First(lo, hi, S) ==
    IF lo > hi THEN lo
    ELSE CHOOSE j \in lo..(hi + 1) :
           /\ j = hi + 1 \/ j \in S
           /\ \A k \in lo..(j - 1) : k \notin S

\* the first position >= i of t whose character is not in S (Len(t)+1 if none):
\* where a greedy [S]* starting at i ends
SpanIn(t, i, S) == First(i, Len(t), {j \in i..Len(t) : t[j] \notin S})

\* the first position >= i of t whose character is in S (Len(t)+1 if none):
\* where a greedy [^S]* starting at i ends
SpanNotIn(t, i, S) == First(i, Len(t), {j \in i..Len(t) : t[j] \in S})

\* str.strip()
Strip(t) ==
    LET a == SpanIn(t, 1, Space)
        b == CHOOSE j \in a..Len(t) :
               t[j] \notin Space /\ \A k \in (j + 1)..Len(t) : t[k] \in Space
    IN  IF a > Len(t) THEN <<>> ELSE SubSeq(t, a, b)

\* the first position >= i at which lit stands in t, 0 if none: str.find
Find(t, i, lit) ==
    LET j == First(i, Len(t) - Len(lit) + 1,
                   {k \in i..Len(t) : LitAt(t, k, lit)})
    IN  IF j >= i /\ LitAt(t, j, lit) THEN j ELSE 0

\* lit in t
Contains(t, lit) == Find(t, 1, lit) # 0

-----------------------------------------------------------------------------
(* strip_rst: eleven re.sub passes in the order of the source, then        *)
(* str.strip().  RuleEnd(r, t, i) is the position of the last character of *)
(* the match of rule r that starts at position i of t, 0 when rule r does  *)
(* not match at i; RuleRepl is the replacement text of that match.         *)

\* after ":" at i: the position after ":role:'" of :[a-z]+:', 0 if absent
RoleOpen(t, i) ==
    LET r == SpanIn(t, i + 1, Lower)
    IN  IF At(t, i) = ":" /\ r > i + 1 /\ LitAt(t, r, <<":", BT>>)
        THEN r + 2 ELSE 0

\* \s*<[^>]+>' at position k: the position of the closing backquote, 0 if none
TargetTail(t, k) ==
    LET w == SpanIn(t, k, Space)
        g == SpanNotIn(t, w + 1, {">"})
    IN  IF At(t, w) = "<" /\ g > w + 1 /\ At(t, g) = ">" /\ At(t, g + 1) = BT
        THEN g + 1 ELSE 0

\* ([^']*?) from cs: the least k >= cs with the target tail at k, 0 if none
LazyDisplay(t, cs) ==
    LET k == First(cs, Len(t),
                   {j \in cs..Len(t) : TargetTail(t, j) # 0 \/ t[j] = BT})
    IN  IF k <= Len(t) /\ TargetTail(t, k) # 0 THEN k ELSE 0

CodeOpen(t, i) ==
    IF LitAt(t, i, Chars(":code:'")) THEN i + 7
    ELSE IF LitAt(t, i, Chars(":literal:'")) THEN i + 10
    ELSE 0

NoteLit == Chars(".. note::")
VersionLit == Chars(".. versionadded:: ")
CodeBlockLit == Chars(".. code-block::")

\* :(?:code|literal):'([^']*)'
Rule1End(t, i) ==
    LET cs == CodeOpen(t, i)
        ce == SpanNotIn(t, cs, {BT})
    IN  IF cs # 0 /\ ce <= Len(t) THEN ce ELSE 0

\* :[a-z]+:'([^']*?)\s*<[^>]+>'
Rule2End(t, i) ==
    LET cs == RoleOpen(t, i)
        k  == LazyDisplay(t, cs)
    IN  IF cs # 0 /\ k # 0 THEN TargetTail(t, k) ELSE 0

\* :[a-z]+:'~?([^']*)'
Rule3End(t, i) ==
    LET cs == RoleOpen(t, i)
        c1 == IF At(t, cs) = "~" THEN cs + 1 ELSE cs
        ce == SpanNotIn(t, c1, {BT})
    IN  IF cs # 0 /\ ce <= Len(t) THEN ce ELSE 0

\* Rule4End without the (?!https?://) lookahead
Rule4EndAnyTarget(t, i) ==
    LET w == SpanIn(t, i, Space)
        g == SpanIn(t, w + 2, TargetBody)
    IN  IF At(t, w) = "<" /\ At(t, w + 1) \in TargetHead /\ At(t, g) = ">"
        THEN g ELSE 0

\* \s*<(?!https?://)(?:[a-z@/][\w. @+=/:-]*)>
Rule4End(t, i) ==
    LET w == SpanIn(t, i, Space)
        g == SpanIn(t, w + 2, TargetBody)
    IN  IF /\ At(t, w) = "<"
           /\ ~ LitAt(t, w + 1, Chars("http://"))
           /\ ~ LitAt(t, w + 1, Chars("https://"))
           /\ At(t, w + 1) \in TargetHead
           /\ At(t, g) = ">"
        THEN g ELSE 0

\* ''([^']*)''
Rule5End(t, i) ==
    LET ce == SpanNotIn(t, i + 2, {BT})
    IN  IF LitAt(t, i, <<BT, BT>>) /\ LitAt(t, ce, <<BT, BT>>)
        THEN ce + 1 ELSE 0

\* '([^']*)'_
Rule6End(t, i) ==
    LET ce == SpanNotIn(t, i + 1, {BT})
    IN  IF At(t, i) = BT /\ LitAt(t, ce, <<BT, "_">>) THEN ce + 1 ELSE 0

\* \.\. note::
Rule7End(t, i) ==
    IF LitAt(t, i, NoteLit) THEN i + Len(NoteLit) - 1 ELSE 0

\* \.\. versionadded:: (\S+)
Rule8End(t, i) ==
    LET cs == i + Len(VersionLit)
        ce == SpanNotIn(t, cs, Space)
    IN  IF LitAt(t, i, VersionLit) /\ ce > cs THEN ce - 1 ELSE 0

\* \.\. code-block::.*
Rule9End(t, i) ==
    IF LitAt(t, i, CodeBlockLit)
    THEN SpanNotIn(t, i + Len(CodeBlockLit), {NL}) - 1 ELSE 0

\* \|(\w+)\|
Rule10End(t, i) ==
    LET ce == SpanIn(t, i + 1, Word)
    IN  IF At(t, i) = "|" /\ ce > i + 1 /\ At(t, ce) = "|" THEN ce ELSE 0

\* (\w)::
Rule11End(t, i) ==
    IF At(t, i) \in Word /\ LitAt(t, i + 1, <<":", ":">>) THEN i + 2 ELSE 0

RuleEnd(r, t, i) ==
    CASE r = 1 -> Rule1End(t, i)
      [] r = 2 -> Rule2End(t, i)
      [] r = 3 -> Rule3End(t, i)
      [] r = 4 -> Rule4End(t, i)
      [] r = 5 -> Rule5End(t, i)
      [] r = 6 -> Rule6End(t, i)
      [] r = 7 -> Rule7End(t, i)
      [] r = 8 -> Rule8End(t, i)
      [] r = 9 -> Rule9End(t, i)
      [] r = 10 -> Rule10End(t, i)
      [] OTHER -> Rule11End(t, i)

RuleRepl(r, t, i, e) ==
    CASE r = 1 -> SubSeq(t, CodeOpen(t, i), e - 1)
      [] r = 2 -> SubSeq(t, RoleOpen(t, i), LazyDisplay(t, RoleOpen(t, i)) - 1)
      [] r = 3 -> LET cs == RoleOpen(t, i)
                  IN  SubSeq(t, IF At(t, cs) = "~" THEN cs + 1 ELSE cs, e - 1)
      [] r = 4 -> <<>>
      [] r = 5 -> SubSeq(t, i + 2, e - 2)
      [] r = 6 -> SubSeq(t, i + 1, e - 2)
      [] r = 7 -> Chars("Note:")
      [] r = 8 -> Chars("(added in ") \o SubSeq(t, i + Len(VersionLit), e)
                    \o <<")">>
      [] r = 9 -> <<>>
      [] r = 10 -> SubSeq(t, i + 1, e - 1)
      [] OTHER -> <<t[i], ":">>

\* re.sub(rule r, replacement, t): leftmost matches, left to right,
\* not overlapping
RECURSIVE SubFrom(_, _, _)
SubFrom(r, t, i) ==
    LET m == First(i, Len(t), {j \in i..Len(t) : RuleEnd(r, t, j) # 0})
        e == RuleEnd(r, t, m)
    IN  IF m > Len(t) THEN SubSeq(t, i, Len(t))
        ELSE SubSeq(t, i, m - 1) \o RuleRepl(r, t, m, e) \o SubFrom(r, t, e + 1)

ReSub(r, t) == SubFrom(r, t, 1)

RuleCount == 11

RECURSIVE ApplyRules(_, _)
ApplyRules(r, t) ==
    IF r > RuleCount THEN t ELSE ApplyRules(r + 1, ReSub(r, t))

strip_rst(t) ==
    IF t = <<>> THEN <<>> ELSE Strip(ApplyRules(1, t))

-----------------------------------------------------------------------------
(* extract_values                                                          *)

\* text.split("\n\n")[0]
FirstPara(t) ==
    LET k == Find(t, 1, <<NL, NL>>)
    IN  IF k = 0 THEN t ELSE SubSeq(t, 1, k - 1)

TriggerPhrases ==
    {Chars("can be"), Chars("one of"), Chars("valid values"),
     Chars("set to one"), Chars("allowed values")}

\* one of the trigger phrases stands in t somewhere in lo..hi, whole
HasPhrase(t, lo, hi) ==
    \E ph \in TriggerPhrases :
        \E p \in lo..(hi - Len(ph) + 1) : LitAtNoCase(t, p, ph)

(* re.search(r"[^.]*(?:can be|...)[^.]*\.", t, re.IGNORECASE).group(), the *)
(* empty text when there is no match.  Neither [^.]* nor a phrase holds a  *)
(* period, so a match lies within one period-delimited stretch of t and    *)
(* ends with the period closing it; the leftmost match starts where the    *)
(* first such stretch that holds a phrase starts.                          *)
RECURSIVE TriggerFrom(_, _)
TriggerFrom(t, s) ==
    LET d == SpanNotIn(t, s, {"."})
    IN  IF d > Len(t) THEN <<>>
        ELSE IF HasPhrase(t, s, d - 1) THEN SubSeq(t, s, d)
        ELSE TriggerFrom(t, d + 1)

Trigger(t) == TriggerFrom(t, 1)

OptLit == Chars(":opt:'")
CodeLit == Chars(":code:'")

\* re.findall(r":opt:'(\w+)'", t), from position i on
RECURSIVE FindOpts(_, _)
FindOpts(t, i) ==
    LET m  == Find(t, i, OptLit)
        cs == m + Len(OptLit)
        ce == SpanIn(t, cs, Word)
    IN  IF m = 0 THEN <<>>
        ELSE IF ce > cs /\ At(t, ce) = BT
        THEN <<SubSeq(t, cs, ce - 1)>> \o FindOpts(t, ce + 1)
        ELSE FindOpts(t, m + 1)

\* re.findall(r":code:'([^']+)'", t), from position i on
RECURSIVE FindCodes(_, _)
FindCodes(t, i) ==
    LET m  == Find(t, i, CodeLit)
        cs == m + Len(CodeLit)
        ce == SpanNotIn(t, cs, {BT})
    IN  IF m = 0 THEN <<>>
        ELSE IF ce > cs /\ ce <= Len(t)
        THEN <<SubSeq(t, cs, ce - 1)>> \o FindCodes(t, ce + 1)
        ELSE FindCodes(t, m + 1)

\* list(dict.fromkeys(s)): the first occurrence of each element, in order
Dedup(s) ==
    LET RECURSIVE Go(_, _)
        Go(i, acc) ==
            IF i > Len(s) THEN acc
            ELSE IF \E k \in 1..Len(acc) : acc[k] = s[i] THEN Go(i + 1, acc)
            ELSE Go(i + 1, Append(acc, s[i]))
    IN  Go(1, <<>>)

MaxValueLen == 30

\* AcceptValues with the length test off by one (<= for <)
AcceptValuesOffByOne(values) ==
    Len(values) >= 2 /\ \A k \in 1..Len(values) : Len(values[k]) <= MaxValueLen

\* the acceptance test of the collected values
AcceptValues(values) ==
    Len(values) >= 2 /\ \A k \in 1..Len(values) : Len(values[k]) < MaxValueLen

\* OtherOptNamed with the comparison inverted (== for !=)
OtherOptNamedInverted(name, sentence) ==
    LET other_opts == FindOpts(sentence, 1)
    IN  \E k \in 1..Len(other_opts) : other_opts[k] = name

\* the cross-reference test: some :opt: of the sentence names another option
OtherOptNamed(name, sentence) ==
    LET other_opts == FindOpts(sentence, 1)
    IN  \E k \in 1..Len(other_opts) : other_opts[k] # name

extract_values(name, t) ==
    IF t = <<>> THEN <<>>
    ELSE LET trigger == Trigger(FirstPara(t))
             values  == Dedup(FindCodes(trigger, 1))
         IN  IF trigger = <<>> THEN <<>>
             ELSE IF OtherOptNamed(name, trigger) THEN <<>>
             ELSE IF AcceptValues(values) THEN values
             ELSE <<>>

-----------------------------------------------------------------------------
(* none_is_special_value                                                   *)

SentenceEnd == {".", "!", "?"}

\* re.split(r"(?<=[.!?])\s+", t), from position s on: the next separator
\* is the first run of whitespace that follows a '.', '!' or '?'
RECURSIVE SplitSentences(_, _)
SplitSentences(t, s) ==
    LET i == First(s, Len(t),
                   {j \in s..Len(t) :
                      At(t, j - 1) \in SentenceEnd /\ t[j] \in Space})
    IN  IF i > Len(t) THEN <<SubSeq(t, s, Len(t))>>
        ELSE <<SubSeq(t, s, i - 1)>> \o SplitSentences(t, SpanIn(t, i, Space))

NoneLit == Chars(":code:'none'")

\* NoneSentence with any() for all(): no cross-reference, no match
NoneSentenceAny(name, sentence) ==
    /\ Contains(sentence, NoneLit)
    /\ LET other_opts == FindOpts(sentence, 1)
       IN  \E k \in 1..Len(other_opts) : other_opts[k] = name

\* the test of one sentence
NoneSentence(name, sentence) ==
    /\ Contains(sentence, NoneLit)
    /\ LET other_opts == FindOpts(sentence, 1)
       IN  \A k \in 1..Len(other_opts) : other_opts[k] = name

none_is_special_value(name, t) ==
    IF t = <<>> THEN FALSE
    ELSE LET ss == SplitSentences(t, 1)
         IN  \E k \in 1..Len(ss) : NoneSentence(name, ss[k])

-----------------------------------------------------------------------------
(* is_stub_doc                                                             *)

SeeLit == Chars("See")
ForDetailsLit == Chars("for details")

\* .*?\bfor details from position k: the least position >= k at which
\* "for details" stands after a non-word character, no line break on the
\* way; 0 if none
ForDetailsAt(t, k) == LitAt(t, k, ForDetailsLit) /\ At(t, k - 1) \notin Word

LazyForDetails(t, s) ==
    LET k == First(s, Len(t),
                   {j \in s..Len(t) : ForDetailsAt(t, j) \/ t[j] = NL})
    IN  IF k <= Len(t) /\ ForDetailsAt(t, k) THEN k ELSE 0

\* the end of the match of ^See\b.*?\bfor details\.?\s* in t, 0 if none
SeePrefixEnd(t) ==
    LET k == LazyForDetails(t, 4)
        e == k + Len(ForDetailsLit)
        f == IF At(t, e) = "." THEN e + 1 ELSE e
    IN  IF LitAt(t, 1, SeeLit) /\ At(t, 4) \notin Word /\ k # 0
        THEN SpanIn(t, f, Space) - 1 ELSE 0

\* re.sub(r"^See\b.*?\bfor details\.?\s*", "", t, count=1)
RemoveSeePrefix(t) ==
    LET e == SeePrefixEnd(t)
    IN  IF e = 0 THEN t ELSE SubSeq(t, e + 1, Len(t))

StubMaxLen == 20

is_stub_doc(t) ==
    IF t = <<>> THEN FALSE
    ELSE Len(Strip(RemoveSeePrefix(t))) < StubMaxLen

-----------------------------------------------------------------------------
(* parse_options_spec and format_flags_doc                                 *)

\* t.split(c) for a one-character separator c
RECURSIVE SplitOn(_, _)
SplitOn(t, c) ==
    LET k == SpanNotIn(t, 1, {c})
    IN  IF k > Len(t) THEN <<t>>
        ELSE <<SubSeq(t, 1, k - 1)>> \o SplitOn(SubSeq(t, k + 1, Len(t)), c)

\* t.split(): the maximal runs of non-whitespace characters
RECURSIVE SplitWords(_)
SplitWords(t) ==
    LET a == SpanIn(t, 1, Space)
        b == SpanNotIn(t, a, Space)
    IN  IF a > Len(t) THEN <<>>
        ELSE <<SubSeq(t, a, b - 1)>> \o SplitWords(SubSeq(t, b, Len(t)))

\* sep.join(ts)
RECURSIVE Join(_, _)
Join(ts, sep) ==
    IF ts = <<>> THEN <<>>
    ELSE IF Len(ts) = 1 THEN ts[1]
    ELSE ts[1] \o sep \o Join(Tail(ts), sep)

PlaceholderLit == Chars("#placeholder_for_formatting#")

MetaKeys == {Chars("type"), Chars("default"), Chars("choices"),
             Chars("completion")}

NoMeta == [k \in MetaKeys |-> <<>>]

\* re.match(r"^(type|default|choices|completion)=", t)
IsMetaLine(t) == \E k \in MetaKeys : LitAt(t, 1, k \o <<"=">>)

\* current_meta.get(key): the value, the empty text when the key is absent
\* or its value empty (both falsy)
MetaGet(meta, key) == IF meta[Chars(key)] = <<>> THEN <<>> ELSE meta[Chars(key)][1]

MaxLineLen == 120

\* re.match(r"([^.]+\.)\s", t): the first sentence, <<>> when no match
FirstSentence(t) ==
    LET d == SpanNotIn(t, 1, {"."})
    IN  IF d > 1 /\ d <= Len(t) /\ At(t, d + 1) \in Space
        THEN SubSeq(t, 1, d) ELSE <<>>

\* the first paragraph of desc, joined into one line
OneLine(desc) ==
    Join(SplitWords(IF desc # <<>> THEN Strip(FirstPara(desc)) ELSE <<>>),
         <<" ">>)

\* the line, cut to its first sentence if it is long
CutLine(line) ==
    IF Len(line) > MaxLineLen /\ FirstSentence(line) # <<>>
    THEN FirstSentence(line) ELSE line

\* the description of flush(): stripped of markup, its first paragraph on
\* one line, cut to its first sentence when longer than 120 characters
FlushDesc(desc_lines) ==
    CutLine(OneLine(strip_rst(Strip(Join(desc_lines, <<NL>>)))))

\* FlagSuffix with the two tests in the other order
FlagSuffixListFirst(meta) ==
    IF MetaGet(meta, "type") = Chars("list") THEN Chars(" (repeatable)")
    ELSE IF MetaGet(meta, "choices") # <<>>
    THEN <<"=">> \o Join(SplitOn(MetaGet(meta, "choices"), ","), <<"|">>)
    ELSE <<>>

\* what flush() appends to the flags
FlagSuffix(meta) ==
    IF MetaGet(meta, "choices") # <<>>
    THEN <<"=">> \o Join(SplitOn(MetaGet(meta, "choices"), ","), <<"|">>)
    ELSE IF MetaGet(meta, "type") = Chars("list") THEN Chars(" (repeatable)")
    ELSE <<>>

\* what flush() appends to the description
DefaultSuffix(meta) ==
    IF MetaGet(meta, "default") # <<>>
    THEN Chars(" (default: ") \o MetaGet(meta, "default") \o <<")">>
    ELSE <<>>

\* flush(): the entries with the accumulated flag appended, if there is one
Flush(es, flags, meta, desc_lines) ==
    IF flags = <<>> THEN es
    ELSE Append(es, << flags \o FlagSuffix(meta),
                       FlushDesc(desc_lines) \o DefaultSuffix(meta) >>)

\* the flush() after the loop, forgotten
FinalFlushForgotten(es, flags, meta, desc_lines) == es

\* the flush() after the loop
FinalFlush(es, flags, meta, desc_lines) == Flush(es, flags, meta, desc_lines)

\* key, _, val = line.strip().partition("=")
MetaKey(t) == SubSeq(t, 1, SpanNotIn(t, 1, {"="}) - 1)
MetaVal(t) == SubSeq(t, SpanNotIn(t, 1, {"="}) + 1, Len(t))

\* one turn of the loop over spec.split("\n"), on the parser's state
\* <<entries, current_flags, current_meta, current_desc_lines>>
LoopBody(st, line) ==
    IF Strip(line) = PlaceholderLit THEN st
    ELSE IF LitAt(line, 1, <<"-", "-">>)
    THEN << Flush(st[1], st[2], st[3], st[4]),
            Join(SplitWords(line), <<",", " ">>), NoMeta, <<>> >>
    ELSE IF st[2] # <<>> /\ IsMetaLine(Strip(line))
    THEN << st[1], st[2],
            [st[3] EXCEPT ![MetaKey(Strip(line))] = <<MetaVal(Strip(line))>>],
            st[4] >>
    ELSE IF st[2] # <<>>
    THEN << st[1], st[2], st[3], Append(st[4], line) >>
    ELSE st

RECURSIVE LoopFrom(_, _)
LoopFrom(st, ls) ==
    IF ls = <<>> THEN st ELSE LoopFrom(LoopBody(st, Head(ls)), Tail(ls))

\* the flush() after the loop, on the parser's state
FlushState(st) == FinalFlush(st[1], st[2], st[3], st[4])

\* parse_options_spec(spec) as a function of its argument
parse_options_spec(spec) ==
    IF spec = <<>> THEN <<>>
    ELSE FlushState(LoopFrom(<< <<>>, <<>>, NoMeta, <<>> >>, SplitOn(spec, NL)))

\* format_flags_doc(entries): the lines of the entries from the k-th on
RECURSIVE FormatLines(_, _)
FormatLines(es, k) ==
    IF k > Len(es) THEN <<>>
    ELSE << Chars("  ") \o es[k][1] >>
         \o (IF es[k][2] # <<>> THEN << Chars("    ") \o es[k][2] >> ELSE <<>>)
         \o FormatLines(es, k + 1)

format_flags_doc(es) == Join(FormatLines(es, 1), <<NL>>)

-----------------------------------------------------------------------------
(* The action records: action_map, enrich_stub_actions, sorted             *)

\* action_map is a dict: a sequence of records, one per key, in the order
\* of insertion
HasKey(map, name) == \E k \in 1..Len(map) : map[k].name = name

KeyIndex(map, name) == CHOOSE k \in 1..Len(map) : map[k].name = name

DocOf(map, name) == map[KeyIndex(map, name)].doc

SetDoc(map, k, doc) == [map EXCEPT ![k].doc = doc]

\* action_map[name] = rec
Put(map, rec) ==
    IF HasKey(map, rec.name)
    THEN [map EXCEPT ![KeyIndex(map, rec.name)] = rec]
    ELSE Append(map, rec)

\* strip_rst(x) if x else ""
Help(t) == IF t = <<>> THEN <<>> ELSE strip_rst(t)

\* the primary source: the actions of get_all_actions(), group by group
RECURSIVE AddPrimary(_, _, _)
AddPrimary(map, as, k) ==
    IF k > Len(as) THEN map
    ELSE AddPrimary(Put(map, [name |-> as[k].name,
                              short |-> Help(as[k].short_help),
                              doc |-> Help(as[k].long_help)]), as, k + 1)

\* the supplement: the names of shortcut_map that action_map has not
RECURSIVE AddSupplement(_, _, _)
AddSupplement(map, sm, k) ==
    IF k > Len(sm) THEN map
    ELSE AddSupplement(IF HasKey(map, sm[k].name) THEN map
                       ELSE Append(map, [name |-> sm[k].name,
                                         short |-> Help(sm[k].short_text),
                                         doc |-> Help(sm[k].long_text)]),
                       sm, k + 1)

BuildMap(k) ==
    AddSupplement(IF k.actions.available
                  THEN AddPrimary(<<>>, k.actions.list, 1) ELSE <<>>,
                  k.shortcut_map, 1)

LaunchName == Chars("launch")

\* the exceptions each except clause catches
LaunchExcept(exc) == exc \in {"ImportError", "Exception"}
RcImportExcept(exc) == exc = "ImportError"
RcLookupExceptImportOnly(exc) == exc = "ImportError"
RcLookupExcept(exc) == exc \in {"ImportError", "Exception"}

FlagsLit == Chars("Flags:") \o <<NL>>

\* the launch doc out of the flag spec; the doc as it is if the spec has
\* no entry
FlagsDoc(doc, es) ==
    IF es # <<>> THEN FlagsLit \o format_flags_doc(es) ELSE doc

LaunchDoc(doc, spec) == FlagsDoc(doc, parse_options_spec(spec))

\* the same without the look at the record's own doc
ShortcutStepAnyDoc(map, m) ==
    IF HasKey(map, m.name)
    THEN IF m.long_text # <<>> /\ ~ is_stub_doc(m.long_text)
         THEN SetDoc(map, KeyIndex(map, m.name), strip_rst(m.long_text))
         ELSE map
    ELSE map

\* one turn of the loop over shortcut_map
ShortcutStep(map, m) ==
    IF HasKey(map, m.name) /\ is_stub_doc(DocOf(map, m.name))
    THEN IF m.long_text # <<>> /\ ~ is_stub_doc(m.long_text)
         THEN SetDoc(map, KeyIndex(map, m.name), strip_rst(m.long_text))
         ELSE map
    ELSE map

RcNameMap(name) ==
    CASE name = Chars("disable_ligatures_in") -> Chars("disable_ligatures")
      [] name = Chars("start_resizing_window") -> Chars("resize_window")
      [] OTHER -> name

\* command_for_name(rc_name): the command, or the exception of the lookup
CommandForName(rc, rc_name) ==
    IF \E k \in 1..Len(rc.commands) : rc.commands[k].name = rc_name
    THEN rc.commands[CHOOSE k \in 1..Len(rc.commands) :
                       rc.commands[k].name = rc_name]
    ELSE [name |-> rc_name, exc |-> "Exception", desc |-> <<>>]

\* the test that lets the loop over the remote commands pass a record by
RcSkipsNever(doc) == FALSE
RcSkips(doc) == ~ is_stub_doc(doc)

\* the end of a match of \.?\s*See\s+.+$ from position i: the end of the
\* text, before its last line break if it ends with one
SeeShortEnd(t) ==
    IF t # <<>> /\ t[Len(t)] = NL THEN Len(t) - 1 ELSE Len(t)

SeeShortAt(t, i) ==
    LET a == IF At(t, i) = "." THEN i + 1 ELSE i
        b == SpanIn(t, a, Space)
        c == b + 3
        d == SpanIn(t, c, Space)
        e == SeeShortEnd(t)
    IN  /\ LitAt(t, b, SeeLit)
        /\ \E p \in (c + 1)..(IF d < e THEN d ELSE e) :
             \A k \in p..e : t[k] # NL

\* re.sub(see_re, "", short).strip()
CleanShort(t) ==
    LET m == First(1, Len(t), {j \in 1..Len(t) : SeeShortAt(t, j)})
    IN  IF m > Len(t) THEN Strip(t)
        ELSE Strip(SubSeq(t, 1, m - 1) \o SubSeq(t, SeeShortEnd(t) + 1, Len(t)))

\* the doc without its leading "See X for details"
CleanDoc(doc) ==
    IF doc # <<>> /\ LitAt(doc, 1, SeeLit) /\ At(doc, 4) \notin Word
    THEN Strip(RemoveSeePrefix(doc))
    ELSE doc

CleanAll(map) ==
    [k \in 1..Len(map) |->
       [name |-> map[k].name, short |-> CleanShort(map[k].short),
        doc |-> CleanDoc(map[k].doc)]]

\* the order of str on the names
Alphabet == Chars("_abcdefghijklmnopqrstuvwxyz")

Ord(c) == CHOOSE k \in 1..Len(Alphabet) : Alphabet[k] = c

NameLessEq(a, b) ==
    LET n == IF Len(a) < Len(b) THEN Len(a) ELSE Len(b)
        k == First(1, n, {j \in 1..n : a[j] # b[j]})
    IN  IF k > n THEN Len(a) <= Len(b) ELSE Ord(a[k]) < Ord(b[k])

\* sorted(action_map.values(), key=name): a stable sort
RECURSIVE SortedFrom(_, _, _)
SortedFrom(map, k, acc) ==
    IF k > Len(map) THEN acc
    ELSE LET p == First(1, Len(acc),
                        {j \in 1..Len(acc) :
                           ~ NameLessEq(acc[j].name, map[k].name)})
         IN  SortedFrom(map, k + 1,
                        SubSeq(acc, 1, p - 1) \o <<map[k]>>
                          \o SubSeq(acc, p, Len(acc)))

Sorted(map) == SortedFrom(map, 1, <<>>)

-----------------------------------------------------------------------------
(* The input texts.  A text is assembled from pieces, each a record with   *)
(* its kind and its argument; Render gives the characters of a piece and   *)
(* Cat those of a sequence of pieces.  The pieces are what the claims'     *)
(* statements speak of (a verbatim token, a cross-reference, a trigger     *)
(* phrase, a sentence end, a paragraph break); the functions under study   *)
(* see the characters only.                                                *)

Piece(kind, arg) == [kind |-> kind, arg |-> Chars(arg)]

Render(p) ==
    CASE p.kind = "code" -> CodeLit \o p.arg \o <<BT>>
      [] p.kind = "opt"  -> OptLit \o p.arg \o <<BT>>
      [] OTHER -> p.arg

RECURSIVE Cat(_)
Cat(ps) == IF ps = <<>> THEN <<>> ELSE Render(Head(ps)) \o Cat(Tail(ps))

SeqsUpTo(S, n) == UNION {[1..k -> S] : k \in 0..n}

\* the queried option; the cross-references of the texts name it or "p"
OptNames == {Chars("o")}

\* a verbatim token of 30 characters, one too long to be accepted
LongToken == "xxxxxxxxxxxxxxxxxxxxxxxxxxxxxx"

MaxParts == 5

ExtractPieces ==
    { Piece("phrase", "Can be "), Piece("code", "a"), Piece("code", "b"),
      Piece("code", LongToken), Piece("opt", "o"), Piece("opt", "p"),
      Piece("end", ". "), Piece("para", "\n\n") }

\* strip_rst makes eleven passes over its text: fewer pieces for it
MaxStripParts == 4

\* parse_options_spec not running
ParserIdle ==
    /\ rest = <<>>
    /\ entries = <<>>
    /\ current_flags = <<>>
    /\ current_meta = NoMeta
    /\ current_desc_lines = <<>>

\* no source of kitty, no action record
NoKitty ==
    [actions |-> [available |-> FALSE, list |-> <<>>],
     shortcut_map |-> <<>>,
     launch |-> [exc |-> "ImportError", spec |-> <<>>],
     rc |-> [available |-> FALSE, commands |-> <<>>]]

OptionsIdle ==
    /\ definition = <<>>
    /\ opt_pos = 0
    /\ options = <<>>
    /\ multi_options = <<>>

EnrichIdle ==
    /\ kitty = NoKitty
    /\ action_map = <<>>
    /\ actions = <<>>
    /\ idx = 0
    /\ command_for_name = FALSE

InitText(pieces, n) ==
    /\ pc = "start"
    /\ ParserIdle
    /\ OptionsIdle
    /\ EnrichIdle
    /\ opt_name \in OptNames
    /\ parts \in SeqsUpTo(pieces, n)
    /\ text = Cat(parts)
    /\ ret = <<>>

InitExtract == InitText(ExtractPieces, MaxParts)

\* the call extract_values(opt_name, text)
ExtractValues ==
    /\ pc = "start"
    /\ ret' = extract_values(opt_name, text)
    /\ pc' = "done"
    /\ UNCHANGED <<optionvars, textvars, parservars, enrichvars>>

SpecExtract == InitExtract /\ [][ExtractValues]_vars

(* What the claims say of a text, read off its pieces.                     *)

\* the first paragraph: the pieces before the first paragraph break
ParaLen(ps) == First(1, Len(ps), {j \in 1..Len(ps) : ps[j].kind = "para"}) - 1

\* pieces lo..hi of ps are a sentence of the first paragraph that a period
\* ends and that holds a trigger phrase
PhraseSentence(ps, lo, hi) ==
    /\ lo <= hi
    /\ lo = 1 \/ ps[lo - 1].kind = "end"
    /\ ps[hi + 1].kind = "end"
    /\ \A k \in lo..hi : ps[k].kind # "end"
    /\ \E k \in lo..hi : ps[k].kind = "phrase"

\* the trigger sentence: the first of them (no pair when there is none)
TriggerSentences(ps) ==
    LET n == ParaLen(ps)
        S == { r \in (1..(n - 1)) \X (1..(n - 1)) :
                 PhraseSentence(ps, r[1], r[2]) }
    IN  { r \in S : \A q \in S : r[1] <= q[1] }

\* the sentence cross-references an option other than name
NamesOther(ps, r, name) ==
    \E k \in r[1]..r[2] : ps[k].kind = "opt" /\ ps[k].arg # name

\* the verbatim tokens of the sentence, in order
Tokens(ps, r) ==
    LET codes == SelectSeq(SubSeq(ps, r[1], r[2]), LAMBDA p : p.kind = "code")
    IN  [k \in 1..Len(codes) |-> codes[k].arg]

Elems(q) == {q[k] : k \in 1..Len(q)}

\* r is toks without its repetitions, in the order of first appearance
FirstSeenOrder(r, toks) ==
    /\ Elems(r) = Elems(toks)
    /\ \A i, j \in 1..Len(r) :
         i < j =>
           /\ r[i] # r[j]
           /\ \E a \in 1..Len(toks) :
                /\ toks[a] = r[i]
                /\ \A b \in 1..a : toks[b] # r[j]

\* C1: extract_values returns the empty list whenever the trigger sentence
\* cross-references an option other than the queried one, whatever verbatim
\* tokens the sentence and the rest of the paragraph hold.
C1_CrossReferenceSkipped ==
    pc = "done" =>
      \A r \in TriggerSentences(parts) :
          NamesOther(parts, r, opt_name) => ret = <<>>

\* C1's case: a trigger sentence with two short distinct tokens, which would
\* be returned, and a cross-reference to another option
C1_Witness ==
    /\ pc = "done"
    /\ \E r \in TriggerSentences(parts) :
         /\ NamesOther(parts, r, opt_name)
         /\ {Chars("a"), Chars("b")} = Elems(Tokens(parts, r))

\* C2 as amended: when the trigger sentence names no other option and holds
\* two or more distinct verbatim tokens, each shorter than 30 characters,
\* extract_values returns exactly those tokens, without repetition, in
\* first-seen order; and whatever the input, no returned token has 30 or
\* more characters and the returned list never has length 1.
C2_TokensInOrder ==
    pc = "done" =>
      /\ \A r \in TriggerSentences(parts) :
           LET toks == Tokens(parts, r)
           IN  ( /\ ~ NamesOther(parts, r, opt_name)
                 /\ Cardinality(Elems(toks)) >= 2
                 /\ \A v \in Elems(toks) : Len(v) < MaxValueLen )
               => FirstSeenOrder(ret, toks)
      /\ \A k \in 1..Len(ret) : Len(ret[k]) < MaxValueLen
      /\ Len(ret) # 1

\* C2's case: a repeated token among two distinct ones, returned once each
C2_Witness ==
    /\ pc = "done"
    /\ \E r \in TriggerSentences(parts) :
         /\ Len(Tokens(parts, r)) > Cardinality(Elems(Tokens(parts, r)))
         /\ Tokens(parts, r)[1] = Chars("b")
         /\ ret = <<Chars("b"), Chars("a")>>

\* C2 as stated: the tokens are returned whenever there are two or more
\* distinct ones, however long they are.
C2_Original ==
    pc = "done" =>
      /\ \A r \in TriggerSentences(parts) :
           LET toks == Tokens(parts, r)
           IN  ( /\ ~ NamesOther(parts, r, opt_name)
                 /\ Cardinality(Elems(toks)) >= 2 )
               => FirstSeenOrder(ret, toks)
      /\ \A k \in 1..Len(ret) : Len(ret[k]) < MaxValueLen
      /\ Len(ret) # 1

-----------------------------------------------------------------------------
(* none_is_special_value over texts of sentences                           *)

NonePieces ==
    { Piece("code", "none"), Piece("opt", "o"), Piece("opt", "p"),
      Piece("punct", "."), Piece("punct", "!"), Piece("space", " "),
      Piece("space", "\n "), Piece("plain", "x") }

InitNone == InitText(NonePieces, MaxParts)

\* the call none_is_special_value(opt_name, text)
NoneIsSpecialValue ==
    /\ pc = "start"
    /\ ret' = none_is_special_value(opt_name, text)
    /\ pc' = "done"
    /\ UNCHANGED <<optionvars, textvars, parservars, enrichvars>>

SpecNone == InitNone /\ [][NoneIsSpecialValue]_vars

\* piece k belongs to a separator: whitespace that follows a '.', '!' or '?'
Separates(ps, k) ==
    /\ k >= 1 /\ k <= Len(ps)
    /\ \E j \in 1..(k - 1) :
         /\ ps[j].kind = "punct"
         /\ \A m \in (j + 1)..k : ps[m].kind = "space"

\* pieces lo..hi of ps are a sentence
Sentence(ps, lo, hi) ==
    /\ 1 <= lo /\ lo <= hi /\ hi <= Len(ps)
    /\ lo = 1 \/ Separates(ps, lo - 1)
    /\ hi = Len(ps) \/ Separates(ps, hi + 1)
    /\ \A k \in lo..hi : ~ Separates(ps, k)

\* the sentence mentions :code:'none' and cross-references name only
QualifyingSentence(ps, lo, hi, name) ==
    /\ Sentence(ps, lo, hi)
    /\ \E k \in lo..hi : ps[k] = Piece("code", "none")
    /\ \A k \in lo..hi : ps[k].kind = "opt" => ps[k].arg = name

\* C3: none_is_special_value is true if and only if some sentence mentions
\* :code:'none' and every cross-reference of that sentence names the queried
\* option (none at all included); the empty text gives false.
C3_NoneIffQualifyingSentence ==
    pc = "done" =>
      ret = (\E lo, hi \in 1..Len(parts) :
               QualifyingSentence(parts, lo, hi, opt_name))

\* C3's case: a first sentence that mentions none beside another option,
\* then one that mentions it with no cross-reference
C3_Witness ==
    /\ pc = "done"
    /\ ret = TRUE
    /\ \E lo, hi \in 1..Len(parts) :
         /\ Sentence(parts, lo, hi)
         /\ \E k \in lo..hi : parts[k] = Piece("code", "none")
         /\ \E k \in lo..hi : parts[k] = Piece("opt", "p")
    /\ \E lo, hi \in 1..Len(parts) :
         /\ QualifyingSentence(parts, lo, hi, opt_name)
         /\ \A k \in lo..hi : parts[k].kind # "opt"

-----------------------------------------------------------------------------
(* is_stub_doc over forwarding references                                  *)

StubPieces ==
    { Piece("see", "See "), Piece("x", "launch"),
      Piece("x", "the\nlaunch page"), Piece("fd", " for details."),
      Piece("tail", "yyyyyyyyyyyyyyyyyyyy"), Piece("plain", " x") }

InitStub == InitText(StubPieces, MaxParts)

\* the call is_stub_doc(text)
IsStubDoc ==
    /\ pc = "start"
    /\ ret' = is_stub_doc(text)
    /\ pc' = "done"
    /\ UNCHANGED <<optionvars, textvars, parservars, enrichvars>>

SpecStub == InitStub /\ [][IsStubDoc]_vars

\* the first n pieces of ps read "See X for details."
SeeForm(ps, n) ==
    /\ 3 <= n /\ n <= Len(ps)
    /\ ps[1].kind = "see"
    /\ ps[n].kind = "fd"
    /\ \A k \in 2..(n - 1) : ps[k].kind = "x"

\* C4: is_stub_doc is false for the empty text, true for every text of the
\* form "See X for details.", and false for every such text with 20 or more
\* non-whitespace characters appended.
C4_Original ==
    pc = "done" =>
      /\ parts = <<>> => ret = FALSE
      /\ SeeForm(parts, Len(parts)) => ret = TRUE
      /\ \A n \in 1..(Len(parts) - 1) :
           ( SeeForm(parts, n) /\ \A k \in (n + 1)..Len(parts) :
                                    parts[k].kind = "tail" )
           => ret = FALSE

\* What does hold of C4: the same, for an X that holds no line break.
C4_SingleLine ==
    pc = "done" =>
      /\ parts = <<>> => ret = FALSE
      /\ ( SeeForm(parts, Len(parts)) /\ ~ Contains(text, <<NL>>) )
           => ret = TRUE
      /\ \A n \in 1..(Len(parts) - 1) :
           ( SeeForm(parts, n) /\ \A k \in (n + 1)..Len(parts) :
                                    parts[k].kind = "tail" )
           => ret = FALSE

-----------------------------------------------------------------------------
(* strip_rst over plain and marked-up texts                                *)

StripPieces ==
    { Piece("ws", " "), Piece("ws", "\n"), Piece("word", "hello"),
      Piece("word", "<https://e.c>"), Piece("word", "k: v."),
      Piece("markup", ":code:'v'"), Piece("markup", "x::"),
      Piece("markup", " <t>") }

InitStrip == InitText(StripPieces, MaxStripParts)

\* the call strip_rst(text)
StripRst ==
    /\ pc = "start"
    /\ ret' = strip_rst(text)
    /\ pc' = "done"
    /\ UNCHANGED <<optionvars, textvars, parservars, enrichvars>>

SpecStrip == InitStrip /\ [][StripRst]_vars

\* the text holds nothing of the markup dialect
PlainText(ps) == \A k \in 1..Len(ps) : ps[k].kind \in {"ws", "word"}

\* ps without its leading and its trailing whitespace pieces
TrimPieces(ps) ==
    LET W  == {k \in 1..Len(ps) : ps[k].kind # "ws"}
        lo == CHOOSE k \in W : \A j \in W : k <= j
        hi == CHOOSE k \in W : \A j \in W : k >= j
    IN  IF W = {} THEN <<>> ELSE SubSeq(ps, lo, hi)

\* C5: on a text free of markup strip_rst returns the text itself, its
\* leading and trailing whitespace trimmed, and stripping that result again
\* changes nothing.
C5_PlainTextFixedPoint ==
    (pc = "done" /\ PlainText(parts)) =>
      /\ ret = Cat(TrimPieces(parts))
      /\ strip_rst(ret) = ret

\* C5's case: a plain text with whitespace to trim and a URL in angle
\* brackets, which is not a cross-reference target
C5_Witness ==
    /\ pc = "done"
    /\ PlainText(parts)
    /\ Len(parts) >= 3
    /\ parts[1].kind = "ws"
    /\ \E k \in 2..Len(parts) : parts[k] = Piece("word", "<https://e.c>")
    /\ ret # text

-----------------------------------------------------------------------------
(* parse_options_spec over specs of a few lines.  A line is a piece with   *)
(* its text (arg) and what the statements say of it: a flag line's         *)
(* synonyms, a metadata line's key, value and alternatives, a description  *)
(* line's plain text.                                                      *)

FlagLine(raw, names) ==
    [kind |-> "flag", arg |-> Chars(raw),
     names |-> [k \in 1..Len(names) |-> Chars(names[k])]]

MetaLine(key, val, alts) ==
    [kind |-> "meta", arg |-> Chars(key) \o <<"=">> \o Chars(val),
     key |-> key, val |-> Chars(val),
     alts |-> [k \in 1..Len(alts) |-> Chars(alts[k])]]

DescLine(raw, plain) ==
    [kind |-> "desc", arg |-> Chars(raw), plain |-> Chars(plain)]

SkipLine == [kind |-> "skip", arg |-> PlaceholderLit]

LinePieces ==
    { FlagLine("--a", <<"--a">>), FlagLine("--b  -c", <<"--b", "-c">>),
      MetaLine("type", "list", <<>>), MetaLine("choices", "x,y", <<"x", "y">>),
      MetaLine("choices", "", <<>>),
      MetaLine("default", "v", <<>>), MetaLine("default", "", <<>>),
      DescLine("The ''x''.", "The x."), SkipLine }

MaxLines == 4

InitSpec ==
    /\ pc = "start"
    /\ opt_name = <<>>
    /\ parts \in SeqsUpTo(LinePieces, MaxLines)
    /\ text = Join([k \in 1..Len(parts) |-> parts[k].arg], <<NL>>)
    /\ ret = <<>>
    /\ ParserIdle
    /\ OptionsIdle
    /\ EnrichIdle

\* the entry of parse_options_spec(text): nothing to parse, or the loop set up
ParseStart ==
    /\ pc = "start"
    /\ IF text = <<>>
       THEN /\ pc' = "done"
            /\ ret' = <<>>
            /\ UNCHANGED rest
       ELSE /\ pc' = "loop"
            /\ rest' = SplitOn(text, NL)
            /\ UNCHANGED ret
    /\ UNCHANGED <<optionvars, textvars, entries, current_flags, current_meta,
                   current_desc_lines, enrichvars>>

\* the parser's state after a step
SetParser(st) ==
    /\ entries' = st[1]
    /\ current_flags' = st[2]
    /\ current_meta' = st[3]
    /\ current_desc_lines' = st[4]

\* one turn of the loop
ParseLine ==
    /\ pc = "loop"
    /\ rest # <<>>
    /\ SetParser(LoopBody(<<entries, current_flags, current_meta,
                            current_desc_lines>>, Head(rest)))
    /\ rest' = Tail(rest)
    /\ UNCHANGED <<pc, optionvars, textvars, ret, enrichvars>>

\* the end of the loop: the last flush and the return
ParseEnd ==
    /\ pc = "loop"
    /\ rest = <<>>
    /\ entries' = FinalFlush(entries, current_flags, current_meta,
                             current_desc_lines)
    /\ ret' = entries'
    /\ pc' = "done"
    /\ UNCHANGED <<optionvars, textvars, rest, current_flags, current_meta,
                   current_desc_lines, enrichvars>>

NextSpec == ParseStart \/ ParseLine \/ ParseEnd

SpecParse == InitSpec /\ [][NextSpec]_vars

\* the positions of the flag lines among the first n lines, in order
FlagsIn(ps, n) ==
    SelectSeq([k \in 1..n |-> k], LAMBDA k : ps[k].kind = "flag")

\* the lines that follow the flag line at position f, up to the next flag line
Block(ps, f) ==
    LET e == First(f + 1, Len(ps), {k \in (f + 1)..Len(ps) : ps[k].kind = "flag"})
    IN  SubSeq(ps, f + 1, e - 1)

\* the last metadata line of the block with that key, as a set: empty when
\* the block has none
LastMeta(bl, key) ==
    { bl[k] : k \in { j \in 1..Len(bl) :
                        /\ bl[j].kind = "meta" /\ bl[j].key = key
                        /\ \A i \in (j + 1)..Len(bl) :
                             ~ (bl[i].kind = "meta" /\ bl[i].key = key) } }

\* the plain description of the block, on one line
DescText(bl) ==
    LET ds == SelectSeq(bl, LAMBDA p : p.kind = "desc")
    IN  Join([k \in 1..Len(ds) |-> ds[k].plain], <<" ">>)

Synonyms(p) == Join(p.names, Chars(", "))

\* the suffixes of the signature and of the description; nonempty tells
\* whether a key with an empty value counts as absent
SigSuffix(bl, nonempty) ==
    IF \E m \in LastMeta(bl, "choices") : ~ nonempty \/ m.val # <<>>
    THEN <<"=">> \o Join((CHOOSE m \in LastMeta(bl, "choices") : TRUE).alts, <<"|">>)
    ELSE IF \E m \in LastMeta(bl, "type") : m.val = Chars("list")
    THEN Chars(" (repeatable)")
    ELSE <<>>

DefaultOf(bl, nonempty) ==
    { m \in LastMeta(bl, "default") : ~ nonempty \/ m.val # <<>> }

DefaultText(m) == Chars(" (default: ") \o m.val \o <<")">>

EndsWith(t, suffix) ==
    Len(t) >= Len(suffix) /\ SubSeq(t, Len(t) - Len(suffix) + 1, Len(t)) = suffix

\* C7 as amended: the signature of every entry is its flag line's synonyms
\* joined by ", ", followed by '=' and the choices joined by '|' if the flag
\* has choices metadata with a non-empty value, else by " (repeatable)" if
\* type=list, else by nothing; its description is the description text,
\* followed by " (default: <value>)" if the flag has default metadata with a
\* non-empty value and by nothing otherwise.
C7_SignatureAndDefault ==
    pc = "done" =>
      LET fs == FlagsIn(parts, Len(parts))
      IN  \A k \in 1..Len(ret) :
            /\ k <= Len(fs)
            /\ LET bl == Block(parts, fs[k])
               IN  /\ ret[k][1] = Synonyms(parts[fs[k]]) \o SigSuffix(bl, TRUE)
                   /\ \A m \in DefaultOf(bl, TRUE) :
                        ret[k][2] = DescText(bl) \o DefaultText(m)
                   /\ DefaultOf(bl, TRUE) = {} => ret[k][2] = DescText(bl)

\* C7's case: choices and type=list on one flag, and a default
C7_Witness ==
    /\ pc = "done"
    /\ ret = << << Chars("--b, -c=x|y"), Chars(" (default: v)") >> >>
    /\ \E k \in 1..Len(parts) : parts[k] = MetaLine("type", "list", <<>>)

\* C7 as stated: the suffixes follow from the metadata being present, and
\* the description ends with the default exactly when there is default
\* metadata.
C7_Original ==
    pc = "done" =>
      LET fs == FlagsIn(parts, Len(parts))
      IN  \A k \in 1..Len(ret) :
            /\ k <= Len(fs)
            /\ LET bl == Block(parts, fs[k])
               IN  /\ ret[k][1] = Synonyms(parts[fs[k]]) \o SigSuffix(bl, FALSE)
                   /\ \A m \in DefaultOf(bl, FALSE) :
                        EndsWith(ret[k][2], DefaultText(m))
                   /\ DefaultOf(bl, FALSE) = {} =>
                        ~ Contains(ret[k][2], Chars(" (default: "))

\* the lines that count: no placeholder line, no line before the first flag
Relevant(ps) ==
    LET f == First(1, Len(ps), {k \in 1..Len(ps) : ps[k].kind = "flag"})
    IN  SelectSeq(SubSeq(ps, f, Len(ps)), LAMBDA p : p.kind # "skip")

JoinLines(ps) == Join([k \in 1..Len(ps) |-> ps[k].arg], <<NL>>)

\* the description of each flag line that no description line follows is
\* empty (bare), or empty but for the default (~ bare)
NoDescEntries(bare) ==
    LET fs == FlagsIn(parts, Len(parts))
    IN  \A k \in 1..Len(fs) :
          LET bl == Block(parts, fs[k])
          IN  (\A j \in 1..Len(bl) : bl[j].kind # "desc") =>
                /\ k <= Len(ret)
                /\ IF bare THEN ret[k][2] = <<>>
                   ELSE ret[k][2] \in {<<>>} \cup
                          {DefaultText(m) : m \in DefaultOf(bl, TRUE)}

\* what C8 says but for the empty descriptions
EntryPerFlagLine ==
    LET fs == FlagsIn(parts, Len(parts))
    IN  /\ pc = "loop" =>
             \* each flag line flushes the flag before it
             LET seen == Len(FlagsIn(parts, Len(parts) - Len(rest)))
             IN  /\ Len(entries) = IF seen = 0 THEN 0 ELSE seen - 1
                 /\ (current_flags # <<>>) = (seen > 0)
        /\ pc = "done" =>
             \* one entry per flag line, in order, the last one included
             /\ Len(ret) = Len(fs)
             /\ \A k \in 1..Len(fs) :
                  SubSeq(ret[k][1], 1, Len(Synonyms(parts[fs[k]])))
                    = Synonyms(parts[fs[k]])
             \* placeholders and the lines before the first flag line
             /\ ret = parse_options_spec(JoinLines(Relevant(parts)))
             /\ text = <<>> => ret = <<>>

\* C8 as amended: one entry per line that begins with "--", in order (each
\* flag line flushes the flag before it, the end of input the last one);
\* placeholder lines and the lines before the first flag line contribute
\* nothing; an empty spec yields no entry; and a flag line with no
\* description lines yields an entry whose description is empty, or is just
\* " (default: <value>)" when the flag has non-empty default metadata.
C8_OneEntryPerFlagLine ==
    /\ EntryPerFlagLine
    /\ pc = "done" => NoDescEntries(FALSE)

\* C8's case: a line before the first flag, a placeholder among the lines
\* of a flag, and a flag with no description line
C8_Witness ==
    /\ pc = "done"
    /\ Len(parts) = 4
    /\ parts[1].kind = "desc"
    /\ parts[2].kind = "flag"
    /\ parts[3].kind = "skip"
    /\ parts[4].kind = "flag"
    /\ Len(ret) = 2
    /\ ret[2][2] = <<>>

\* C8 as stated: a flag line with no description lines has an empty
\* description.
C8_Original ==
    /\ EntryPerFlagLine
    /\ pc = "done" => NoDescEntries(TRUE)

-----------------------------------------------------------------------------
(* The generation of the action records, over a few sources of kitty:      *)
(* get_all_actions, definition.shortcut_map, kitty.launch.options_spec and *)
(* kitty.rc.base.command_for_name, each present or failing.                *)

Action(name, short_help, long_help) ==
    [name |-> Chars(name), short_help |-> Chars(short_help),
     long_help |-> Chars(long_help)]

\* mappings[0] of one name of shortcut_map
Mapping(name, short_text, long_text) ==
    [name |-> Chars(name), short_text |-> Chars(short_text),
     long_text |-> Chars(long_text)]

Command(name, exc, desc) ==
    [name |-> Chars(name), exc |-> exc, desc |-> Chars(desc)]

\* launch with no help, with a forwarding reference, with a help of its
\* own; another action with a forwarding reference
ActionPool ==
    { Action("launch", "", ""),
      Action("launch", "Go. See x", "See x for details."),
      Action("launch", "Go", "Start a program in a window."),
      Action("disable_ligatures_in", "Go. See x", "See x for details.") }

MaxActions == 2

ActionSources ==
    {[available |-> FALSE, list |-> <<>>]} \cup
    {[available |-> TRUE, list |-> q] : q \in SeqsUpTo(ActionPool, MaxActions)}

\* a long text that is no stub until its markup is stripped, and one that
\* is none after
ShortcutMaps ==
    { l \o d :
        l \in { <<>>,
                << Mapping("launch", "Launch", "Launch a 'program'_ in a window.") >> },
        d \in { <<>>,
                << Mapping("disable_ligatures_in", "Ligatures",
                           ":code:'abcdefghijklmnopq'") >>,
                << Mapping("disable_ligatures_in", "Ligatures. See y",
                           "Turn the ligatures off in a window.") >> } }

LaunchSources ==
    { [exc |-> "ImportError", spec |-> <<>>],
      [exc |-> "Exception", spec |-> <<>>],
      [exc |-> "none", spec |-> <<>>],
      [exc |-> "none", spec |-> Chars("--x")],
      [exc |-> "none", spec |-> Chars("--x\ndefault=''a''\nDo ''b''.")] }

RcSources ==
    { [available |-> FALSE, commands |-> <<>>],
      [available |-> TRUE, commands |->
         << Command("launch", "Exception", ""),
            Command("disable_ligatures", "none",
                    "Control ''ligatures'' of the window.") >>],
      [available |-> TRUE, commands |->
         << Command("launch", "none", "Run a program in a new window."),
            Command("disable_ligatures", "none",
                    "Control ''ligatures'' of the window.") >>] }

KittySources ==
    [actions : ActionSources, shortcut_map : ShortcutMaps,
     launch : LaunchSources, rc : RcSources]

InitEnrich ==
    /\ pc = "build"
    /\ opt_name = <<>>
    /\ parts = <<>>
    /\ text = <<>>
    /\ ret = <<>>
    /\ ParserIdle
    /\ OptionsIdle
    /\ kitty \in KittySources
    /\ action_map = <<>>
    /\ actions = <<>>
    /\ idx = 0
    /\ command_for_name = FALSE

\* action_map out of the primary source and its supplement
BuildActionMap ==
    /\ pc = "build"
    /\ action_map' = BuildMap(kitty)
    /\ pc' = "launch"
    /\ UNCHANGED <<optionvars, textvars, ret, parservars, kitty, actions, idx,
                   command_for_name>>

\* enrich_stub_actions, source (a): the flag spec of launch
EnrichLaunch ==
    /\ pc = "launch"
    /\ IF HasKey(action_map, LaunchName)
          /\ is_stub_doc(DocOf(action_map, LaunchName))
       THEN IF kitty.launch.exc # "none"
            THEN /\ pc' = IF LaunchExcept(kitty.launch.exc)
                          THEN "shortcut" ELSE "error"
                 /\ UNCHANGED action_map
            ELSE /\ action_map' =
                      SetDoc(action_map, KeyIndex(action_map, LaunchName),
                             LaunchDoc(DocOf(action_map, LaunchName),
                                       kitty.launch.spec))
                 /\ pc' = "shortcut"
       ELSE /\ pc' = "shortcut"
            /\ UNCHANGED action_map
    /\ idx' = 1
    /\ UNCHANGED <<optionvars, textvars, ret, parservars, kitty, actions,
                   command_for_name>>

\* source (b): one turn of the loop over shortcut_map
EnrichShortcut ==
    /\ pc = "shortcut"
    /\ idx <= Len(kitty.shortcut_map)
    /\ action_map' = ShortcutStep(action_map, kitty.shortcut_map[idx])
    /\ idx' = idx + 1
    /\ UNCHANGED <<pc, optionvars, textvars, ret, parservars, kitty, actions,
                   command_for_name>>

\* from kitty.rc.base import command_for_name, after the loop over
\* shortcut_map
ImportRc ==
    /\ pc = "shortcut"
    /\ idx > Len(kitty.shortcut_map)
    /\ command_for_name' = kitty.rc.available
    /\ pc' = IF kitty.rc.available \/ RcImportExcept("ImportError")
             THEN "rc" ELSE "error"
    /\ idx' = 1
    /\ UNCHANGED <<optionvars, textvars, ret, parservars, kitty, action_map,
                   actions>>

\* source (c): one turn of the loop over action_map
EnrichRc ==
    /\ pc = "rc"
    /\ command_for_name
    /\ idx <= Len(action_map)
    /\ LET entry == action_map[idx]
           cmd == CommandForName(kitty.rc, RcNameMap(entry.name))
       IN  IF RcSkips(entry.doc)
           THEN UNCHANGED <<pc, action_map>>
           ELSE IF cmd.exc # "none"
           THEN /\ pc' = IF RcLookupExcept(cmd.exc) THEN "rc" ELSE "error"
                /\ UNCHANGED action_map
           ELSE /\ action_map' = SetDoc(action_map, idx, strip_rst(cmd.desc))
                /\ UNCHANGED pc
    /\ idx' = idx + 1
    /\ UNCHANGED <<optionvars, textvars, ret, parservars, kitty, actions,
                   command_for_name>>

\* the loop that strips the "See X" references, after the remote commands
SeeCleanup ==
    /\ pc = "rc"
    /\ ~ command_for_name \/ idx > Len(action_map)
    /\ action_map' = CleanAll(action_map)
    /\ pc' = "sort"
    /\ UNCHANGED <<optionvars, textvars, ret, parservars, kitty, actions, idx,
                   command_for_name>>

\* actions = sorted(action_map.values(), ...)
SortActions ==
    /\ pc = "sort"
    /\ actions' = Sorted(action_map)
    /\ pc' = "done"
    /\ UNCHANGED <<optionvars, textvars, ret, parservars, kitty, action_map,
                   idx,
                   command_for_name>>

NextEnrich ==
    \/ BuildActionMap
    \/ EnrichLaunch
    \/ EnrichShortcut
    \/ ImportRc
    \/ EnrichRc
    \/ SeeCleanup
    \/ SortActions

SpecEnrich == InitEnrich /\ [][NextEnrich]_vars

\* markup left in a text: what a pattern of strip_rst, the angle-bracket
\* target apart, still finds there
HasMarkup(t) ==
    \E r \in (1..RuleCount) \ {4} : \E j \in 1..Len(t) : RuleEnd(r, t, j) # 0

\* C6 as stated, for the action records: once the generation is over, no
\* doc and no short of an emitted record holds markup (inline roles,
\* double-backquote spans, references, substitutions, directives, word::).
C6_Original ==
    pc = "done" =>
      \A k \in 1..Len(actions) :
        ~ HasMarkup(actions[k].doc) /\ ~ HasMarkup(actions[k].short)

\* the next step is a lookup that fails: the flag spec of launch, the
\* import of the remote commands, the remote command of one name
LaunchLookupFails ==
    /\ pc = "launch"
    /\ HasKey(action_map, LaunchName)
    /\ is_stub_doc(DocOf(action_map, LaunchName))
    /\ kitty.launch.exc # "none"

RcImportFails ==
    /\ pc = "shortcut"
    /\ idx > Len(kitty.shortcut_map)
    /\ ~ kitty.rc.available

RcLookupFails ==
    /\ pc = "rc"
    /\ command_for_name
    /\ idx <= Len(action_map)
    /\ is_stub_doc(action_map[idx].doc)
    /\ CommandForName(kitty.rc, RcNameMap(action_map[idx].name)).exc # "none"

\* a failing lookup leaves the records as they were and the pass goes on
FailureSkipped ==
    /\ LaunchLookupFails => action_map' = action_map /\ pc' = "shortcut"
    /\ RcImportFails => action_map' = action_map /\ pc' = "rc"
    /\ RcLookupFails =>
         action_map' = action_map /\ pc' = "rc" /\ idx' = idx + 1

\* the turn of a record whose lookup does not fail still enriches it
OthersStillEnriched ==
    (/\ pc = "rc" /\ pc' = "rc"
     /\ is_stub_doc(action_map[idx].doc)
     /\ ~ RcLookupFails)
    => action_map'[idx].doc =
         strip_rst(CommandForName(kitty.rc,
                                  RcNameMap(action_map[idx].name)).desc)

\* the remote commands' loop is left for the clean-up, over all records
EndsWithCleanup ==
    pc = "rc" /\ pc' # "rc" =>
      /\ pc' = "sort"
      /\ command_for_name => idx > Len(action_map)
      /\ action_map' = CleanAll(action_map)

\* the position of the pass: its phase, then the position of its loop
Rank(phase) ==
    CASE phase = "build" -> 0
      [] phase = "launch" -> 1
      [] phase = "shortcut" -> 2
      [] phase = "rc" -> 3
      [] phase = "sort" -> 4
      [] phase = "done" -> 5
      [] OTHER -> -1

\* every step takes the pass forward
Advances ==
    \/ Rank(pc') > Rank(pc)
    \/ Rank(pc') = Rank(pc) /\ Rank(pc) >= 0 /\ idx' > idx

\* C9: no failure of a lookup is propagated: the pass never ends in an
\* error and every step takes it forward, towards its end; a failing
\* lookup leaves every record as it was and the pass goes on with what
\* follows: after the launch spec the binding table, after the import the
\* remote commands' turn, after one name's lookup the next record, whose
\* lookup still enriches it; and the pass ends with the "See" clean-up,
\* taken over all records once every record has had its turn.
C9_FailuresNotPropagated ==
    /\ [](pc # "error")
    /\ [][Advances]_vars
    /\ [][FailureSkipped]_vars
    /\ [][OthersStillEnriched]_vars
    /\ [][EndsWithCleanup]_vars

\* C9's case: the launch spec and the remote command of launch have both
\* failed, launch has kept its reference (gone with the clean-up), and the
\* record after it has its doc from its remote command
C9_Witness ==
    /\ pc = "done"
    /\ kitty.launch.exc # "none"
    /\ kitty.rc.available
    /\ CommandForName(kitty.rc, LaunchName).exc # "none"
    /\ kitty.actions.list =
         << Action("launch", "Go. See x", "See x for details."),
            Action("disable_ligatures_in", "Go. See x", "See x for details.") >>
    /\ kitty.shortcut_map = <<>>
    /\ actions =
         << [name |-> Chars("disable_ligatures_in"), short |-> Chars("Go"),
             doc |-> Chars("Control ligatures of the window.")],
            [name |-> LaunchName, short |-> Chars("Go"), doc |-> <<>>] >>

\* the doc a record has once source (a) has had its turn
AfterLaunch(rec) ==
    IF rec.name = LaunchName /\ is_stub_doc(rec.doc) /\ kitty.launch.exc = "none"
    THEN LaunchDoc(rec.doc, kitty.launch.spec)
    ELSE rec.doc

\* the long texts source (b) has for a name that are no stubs
LongTexts(name) ==
    { kitty.shortcut_map[k].long_text :
        k \in { j \in 1..Len(kitty.shortcut_map) :
                  /\ kitty.shortcut_map[j].name = name
                  /\ kitty.shortcut_map[j].long_text # <<>>
                  /\ ~ is_stub_doc(kitty.shortcut_map[j].long_text) } }

\* the first source to give a record a doc that is no stub has given it the
\* doc it ends with
FirstSourceWins ==
    LET map0 == BuildMap(kitty)
    IN  \A k \in 1..Len(map0) :
          LET a == AfterLaunch(map0[k])
              final == DocOf(actions, map0[k].name)
          IN  is_stub_doc(map0[k].doc) =>
                IF ~ is_stub_doc(a) THEN final = CleanDoc(a)
                ELSE \A t \in LongTexts(map0[k].name) :
                       ~ is_stub_doc(strip_rst(t)) =>
                         final = CleanDoc(strip_rst(t))

\* the steps come in the order of the source
InOrder ==
    pc' # pc =>
      <<pc, pc'>> \in { <<"build", "launch">>, <<"launch", "shortcut">>,
                        <<"shortcut", "rc">>, <<"rc", "sort">>,
                        <<"sort", "done">> }

\* what a step of a source may do to record k
SourceTouches(k) ==
    /\ action_map'[k].name = action_map[k].name
    /\ ~ is_stub_doc(action_map[k].doc) => action_map'[k].doc = action_map[k].doc
    /\ action_map'[k].doc # action_map[k].doc =>
         CASE pc = "launch" -> action_map[k].name = LaunchName
           [] pc = "shortcut" ->
                /\ idx <= Len(kitty.shortcut_map)
                /\ action_map[k].name = kitty.shortcut_map[idx].name
                /\ ~ is_stub_doc(kitty.shortcut_map[idx].long_text)
                /\ action_map'[k].doc =
                     strip_rst(kitty.shortcut_map[idx].long_text)
           [] OTHER -> k = idx

OnStubsOnly ==
    (pc \in {"launch", "shortcut"} \/ (pc = "rc" /\ pc' = "rc")) =>
      /\ Len(action_map') = Len(action_map)
      /\ \A k \in 1..Len(action_map) : SourceTouches(k)

\* C10: the steps come in the order (a) launch spec, (b) binding table, (c)
\* remote commands; a step of a source changes a doc only if is_stub_doc
\* holds of it before the step, (a) that of launch alone, (b) only that of
\* the name at its turn and only to a long text that is no stub, (c) only
\* that of the record at its turn; so a doc that is no stub is left alone
\* by every later source, and the first source to give one wins.
C10_SourcesInOrderOnStubs ==
    /\ [][InOrder]_vars
    /\ [][OnStubsOnly]_vars
    /\ [](pc = "done" => FirstSourceWins)

\* C10's case: launch was a stub, all three sources had a doc for it, and it
\* has the doc of the first
C10_Witness ==
    /\ pc = "done"
    /\ \E k \in 1..Len(kitty.actions.list) :
         /\ kitty.actions.list[k].name = LaunchName
         /\ kitty.actions.list[k].long_help = Chars("See x for details.")
    /\ kitty.launch.exc = "none"
    /\ LongTexts(LaunchName) # {}
    /\ kitty.rc.available
    /\ CommandForName(kitty.rc, LaunchName).exc = "none"
    /\ SubSeq(DocOf(actions, LaunchName), 1, Len(FlagsLit)) = FlagsLit

\* a doc outside the stub and "See" cases
Rich(doc) ==
    /\ doc # <<>>
    /\ ~ is_stub_doc(doc)
    /\ ~ LitAt(doc, 1, SeeLit)

\* enrich_stub_actions runs: its sources and its clean-up
InEnrichment == pc \in {"launch", "shortcut", "rc"}

RecordsKept ==
    InEnrichment =>
      /\ Len(action_map') = Len(action_map)
      /\ \A k \in 1..Len(action_map) :
           action_map'[k].name = action_map[k].name

RichDocsKept ==
    InEnrichment =>
      \A k \in 1..Len(action_map) :
        Rich(action_map[k].doc) => action_map'[k].doc = action_map[k].doc

SameButStubs(entry, exit) ==
    /\ Len(exit) = Len(entry)
    /\ \A k \in 1..Len(entry) :
         /\ exit[k].name = entry[k].name
         /\ Rich(entry[k].doc) => exit[k].doc = entry[k].doc

\* C13: no step of enrich_stub_actions adds or removes a record or changes
\* a name, none changes a doc that is non-empty, no stub for is_stub_doc
\* and does not begin with "See", and so the records on exit (before they
\* are sorted) are those on entry, with every such doc as it was, whatever
\* the sources hold.
C13_FrameOfEnrichment ==
    /\ [][RecordsKept]_vars
    /\ [][RichDocsKept]_vars
    /\ [](pc = "sort" => SameButStubs(BuildMap(kitty), action_map))

\* every source offers a doc for launch, whose own doc is outside the two
\* cases, and the pass has changed the doc of another record
C13_Witness ==
    /\ pc = "done"
    /\ HasKey(BuildMap(kitty), LaunchName)
    /\ Rich(DocOf(BuildMap(kitty), LaunchName))
    /\ kitty.launch.exc = "none"
    /\ kitty.launch.spec # <<>>
    /\ LongTexts(LaunchName) # {}
    /\ kitty.rc.available
    /\ CommandForName(kitty.rc, LaunchName).exc = "none"
    /\ \E k \in 1..Len(action_map) :
         action_map[k].doc # BuildMap(kitty)[k].doc

-----------------------------------------------------------------------------
(* The clean-up of the docs that begin with "See": the generation over     *)
(* helps of launch that are forwarding references, with and without text  *)
(* of their own after the reference.                                       *)

\* a reference followed by text; the same with the reference wrapped over
\* two lines; a bare reference; a text that begins with "See" and has no
\* "for details"
SeeHelps ==
    { "See x for details. Kept text that is long enough.",
      "See the\nlaunch page for details. Kept text that is long enough.",
      "See x for details.",
      "See also the page of launch in kitty." }

SeeActionSources ==
    { [available |-> TRUE, list |-> << Action("launch", "Go", h) >>] :
        h \in SeeHelps }

InitSee ==
    /\ pc = "build"
    /\ opt_name = <<>>
    /\ parts = <<>>
    /\ text = <<>>
    /\ ret = <<>>
    /\ ParserIdle
    /\ OptionsIdle
    /\ kitty \in [actions : SeeActionSources, shortcut_map : ShortcutMaps,
                  launch : LaunchSources, rc : RcSources]
    /\ action_map = <<>>
    /\ actions = <<>>
    /\ idx = 0
    /\ command_for_name = FALSE

SpecSee == InitSee /\ [][NextEnrich]_vars

\* the leading "See ... for details" clause of a doc: from "See" to the
\* first "for details" after it, whatever lies between; where it starts
ClauseAt(doc) ==
    First(4, Len(doc), {j \in 4..Len(doc) : LitAt(doc, j, ForDetailsLit)})

HasSeeClause(doc) ==
    /\ LitAt(doc, 1, SeeLit)
    /\ At(doc, 4) \notin Word
    /\ ClauseAt(doc) <= Len(doc)

\* the text that follows the clause and its period, trimmed
AfterClause(doc) ==
    Strip(SubSeq(doc,
                 IF At(doc, ClauseAt(doc) + Len(ForDetailsLit)) = "."
                 THEN ClauseAt(doc) + Len(ForDetailsLit) + 1
                 ELSE ClauseAt(doc) + Len(ForDetailsLit),
                 Len(doc)))

CleanupStripsClause ==
    pc = "rc" /\ pc' = "sort" =>
      \A k \in 1..Len(action_map) :
        HasSeeClause(action_map[k].doc) =>
          action_map'[k].doc = AfterClause(action_map[k].doc)

\* C11 as stated: once the sources have run, the clean-up leaves of every
\* doc that begins with a "See ... for details" clause the text that
\* follows the clause, trimmed.
C11_Original == [][CleanupStripsClause]_vars

CleanupStripsOneLineClause ==
    pc = "rc" /\ pc' = "sort" =>
      \A k \in 1..Len(action_map) :
        (/\ HasSeeClause(action_map[k].doc)
         /\ \A j \in 1..ClauseAt(action_map[k].doc) : action_map[k].doc[j] # NL)
        => action_map'[k].doc = AfterClause(action_map[k].doc)

\* What holds of the clean-up: the same, for a clause that lies on one line.
C11_SingleLine == [][CleanupStripsOneLineClause]_vars

-----------------------------------------------------------------------------
(* The generation of the option records: the loop over the descriptors of  *)
(* definition.iter_all_options().                                          *)

\* a record is a dict: a key it lacks is no element of its DOMAIN
SetKey(entry, key, v) ==
    [k \in DOMAIN entry \cup {key} |-> IF k = key THEN v ELSE entry[k]]

\* entry.get("choices", [])
GetChoices(entry) ==
    IF "choices" \in DOMAIN entry THEN entry.choices ELSE <<>>

\* opt.group.title if opt.group else ""
GroupTitle(opt) == IF opt.has_group THEN opt.group_title ELSE <<>>

\* strip_rst(opt.long_text) if opt.long_text else ""
OptDoc(opt) == IF opt.long_text # <<>> THEN strip_rst(opt.long_text) ELSE <<>>

SetIfAny(entry, vals) ==
    IF vals # <<>> THEN SetKey(entry, "choices", vals) ELSE entry

\* the descriptor's own choices, else the values its doc names
FixedOrExtracted(opt, entry) ==
    IF opt.choices # <<>> THEN SetKey(entry, "choices", opt.choices)
    ELSE SetIfAny(entry,
                  IF opt.long_text # <<>>
                  THEN extract_values(opt.name, opt.long_text)
                  ELSE <<>>)

InferYesNo(entry) ==
    IF /\ "choices" \notin DOMAIN entry
       /\ entry.default \in {Chars("yes"), Chars("no")}
    THEN SetKey(entry, "choices", <<Chars("yes"), Chars("no")>>)
    ELSE entry

AcceptsNone(opt) ==
    \/ opt.parser_name = "to_color_or_none"
    \/ none_is_special_value(opt.name, opt.long_text)

\* entry.setdefault("choices", []).append("none")
AddNone(opt, entry) ==
    IF /\ \A k \in 1..Len(GetChoices(entry)) :
            GetChoices(entry)[k] # Chars("none")
       /\ AcceptsNone(opt)
    THEN SetKey(entry, "choices", Append(GetChoices(entry), Chars("none")))
    ELSE entry

OptionEntry(opt) ==
    AddNone(opt,
       InferYesNo(
          FixedOrExtracted(opt,
             [name |-> opt.name, default |-> opt.defval_as_string,
              group |-> GroupTitle(opt), doc |-> OptDoc(opt)])))

MultiOptionEntry(opt) ==
    IF opt.items # <<>>
    THEN [name |-> opt.name, group |-> GroupTitle(opt), doc |-> OptDoc(opt),
          default |-> opt.items[1]]
    ELSE [name |-> opt.name, group |-> GroupTitle(opt), doc |-> OptDoc(opt)]

\* the descriptors: an Option, and a MultiOption with the defaults of its
\* items
Option(name, defval, long_text, choices, parser_name) ==
    [typ |-> "Option", name |-> Chars(name),
     defval_as_string |-> Chars(defval), long_text |-> Chars(long_text),
     has_group |-> TRUE, group_title |-> Chars("Fonts"),
     choices |-> [k \in 1..Len(choices) |-> Chars(choices[k])],
     parser_name |-> parser_name, items |-> <<>>]

MultiOption(name, long_text, items) ==
    [typ |-> "MultiOption", name |-> Chars(name),
     defval_as_string |-> <<>>, long_text |-> Chars(long_text),
     has_group |-> FALSE, group_title |-> <<>>,
     choices |-> <<>>, parser_name |-> "",
     items |-> [k \in 1..Len(items) |-> Chars(items[k])]]

TextNamesValues == "Can be :code:'x', :code:'y' or :code:'x'."
TextNamesNone == "One of :code:'none' or :code:'x'."
TextSaysNone == "Use :code:'none' to disable."
TextPlain == "Plain *text*."

\* fixed choices (without and with "none", and with a value listed twice),
\* values named by the doc, a yes/no default, a parser that takes "none",
\* a doc that describes "none", and none of these
OptionPool ==
    { Option("a", "x", "", <<"x", "y">>, "to_str"),
      Option("b", "x", TextSaysNone, <<"x", "none">>, "to_color_or_none"),
      Option("c", "x", "", <<"x", "y", "x">>, ""),
      Option("d", "x", TextNamesValues, <<>>, "to_color_or_none"),
      Option("e", "x", TextNamesNone, <<>>, ""),
      Option("f", "yes", "", <<>>, "to_bool"),
      Option("g", "no", TextSaysNone, <<>>, "to_bool"),
      Option("h", "x", TextPlain, <<>>, "to_color_or_none"),
      Option("i", "x", TextPlain, <<>>, "to_str"),
      MultiOption("m", TextPlain, <<"v", "w">>),
      MultiOption("n", "", <<>>) }

MaxOptions == 2

InitOptions ==
    /\ pc = "options"
    /\ opt_name = <<>>
    /\ parts = <<>>
    /\ text = <<>>
    /\ ret = <<>>
    /\ ParserIdle
    /\ EnrichIdle
    /\ definition \in SeqsUpTo(OptionPool, MaxOptions)
    /\ opt_pos = 1
    /\ options = <<>>
    /\ multi_options = <<>>

\* one turn of the loop
IterAllOptions ==
    /\ pc = "options"
    /\ opt_pos <= Len(definition)
    /\ IF definition[opt_pos].typ = "Option"
       THEN /\ options' = Append(options, OptionEntry(definition[opt_pos]))
            /\ UNCHANGED multi_options
       ELSE IF definition[opt_pos].typ = "MultiOption"
       THEN /\ multi_options' =
                 Append(multi_options, MultiOptionEntry(definition[opt_pos]))
            /\ UNCHANGED options
       ELSE UNCHANGED <<options, multi_options>>
    /\ opt_pos' = opt_pos + 1
    /\ UNCHANGED <<pc, textvars, ret, parservars, enrichvars, definition>>

\* the loop is left
OptionsDone ==
    /\ pc = "options"
    /\ opt_pos > Len(definition)
    /\ pc' = "done"
    /\ UNCHANGED <<textvars, ret, parservars, enrichvars, optionvars>>

NextOptions == IterAllOptions \/ OptionsDone

SpecOptions == InitOptions /\ [][NextOptions]_vars

\* the descriptors of the single-valued options taken so far, in order: one
\* option record was emitted for each
IsOption(d) == d.typ = "Option"
Taken == SelectSeq(SubSeq(definition, 1, opt_pos - 1), IsOption)

ChoicesOf(entry) == IF "choices" \in DOMAIN entry THEN entry.choices ELSE <<>>

Distinct(s) == \A i, j \in 1..Len(s) : i # j => s[i] # s[j]

\* the values the doc of the descriptor names where it says what the option
\* can be
NamedValues(d) ==
    IF d.long_text = Chars(TextNamesValues) THEN <<Chars("x"), Chars("y")>>
    ELSE IF d.long_text = Chars(TextNamesNone)
    THEN <<Chars("none"), Chars("x")>>
    ELSE <<>>

\* the choices before "none" is considered: the fixed list, else the named
\* values, else yes and no for such a default
Obtained(d) ==
    IF d.choices # <<>> THEN d.choices
    ELSE IF NamedValues(d) # <<>> THEN NamedValues(d)
    ELSE IF d.defval_as_string \in {Chars("yes"), Chars("no")}
    THEN <<Chars("yes"), Chars("no")>>
    ELSE <<>>

NoneAtMostAppended(d, entry) ==
    \/ ChoicesOf(entry) = Obtained(d)
    \/ /\ ChoicesOf(entry) = Append(Obtained(d), Chars("none"))
       /\ \A k \in 1..Len(Obtained(d)) : Obtained(d)[k] # Chars("none")

\* C12 as stated: the choices of every emitted option record hold no value
\* twice, however they were obtained, and they are the obtained choices
\* with "none" appended at most once, at the end, and only when "none" is
\* not among them.
C12_Original ==
    /\ Len(options) = Len(Taken)
    /\ \A k \in 1..Len(options) :
         /\ Distinct(ChoicesOf(options[k]))
         /\ NoneAtMostAppended(Taken[k], options[k])

\* What holds of the loop: the same for every descriptor whose own choice
\* list holds no value twice.
C12_DistinctDescriptor ==
    /\ Len(options) = Len(Taken)
    /\ \A k \in 1..Len(options) :
         /\ NoneAtMostAppended(Taken[k], options[k])
         /\ Distinct(Taken[k].choices) => Distinct(ChoicesOf(options[k]))

-----------------------------------------------------------------------------
(* The whole: any of the functions on any of its inputs, or the generation *)
(* of the action records from any of the sources.                          *)

Init ==
    \/ InitExtract
    \/ InitNone
    \/ InitStub
    \/ InitStrip
    \/ InitSpec
    \/ InitEnrich
    \/ InitSee
    \/ InitOptions

Next ==
    \/ ExtractValues
    \/ NoneIsSpecialValue
    \/ IsStubDoc
    \/ StripRst
    \/ NextSpec
    \/ NextEnrich
    \/ NextOptions

Spec == Init /\ [][Next]_vars
=============================================================================
